---- MODULE Spec2Model ----
(***************************************************************************)
(* Model of dev-server.js: an Express server with four routes              *)
(*   GET  /                          liveness text                         *)
(*   POST /create-checkout-session   creates a Xendit invoice              *)
(*   GET  /verify-payment/:invoice_id  polls the invoice, confirms booking *)
(*   POST /webhook                   Xendit callback, confirms booking     *)
(* over an external bookings table (Supabase).                             *)
(*                                                                         *)
(* Node runs each handler to its next await without interruption, so an    *)
(* action is the code between two awaits.  The provider call and the store *)
(* update are the awaits: other handlers may run while one is pending.     *)
(*                                                                         *)
(* JavaScript values are records [t, s, n]: t is the type tag, s the       *)
(* characters of a string (a sequence of one-character strings), n the     *)
(* value of a number.                                                      *)
(***************************************************************************)
EXTENDS Integers, Sequences, FiniteSets, TLC

\* Number of requests a behaviour of Spec serves; all of them may be in flight
\* at the same time.  Every store is an initial store, so what earlier requests
\* left behind is covered by Init.
MaxRequests == 2

\* Date.now() returns one of 169000 .. 169000 + MaxTick.
MaxTick == 1

\* One handler invocation per request.
Handlers == 1..MaxRequests

----------------------------------------------------------------------------
\* JavaScript values

Undefined == [t |-> "undefined", s |-> <<>>, n |-> 0]

Null == [t |-> "null", s |-> <<>>, n |-> 0]

Str(chars) == [t |-> "string", s |-> chars, n |-> 0]

Num(k) == [t |-> "number", s |-> <<>>, n |-> k]

\* ToBoolean: what `if (v)` and `v && ...` test.
Truthy(v) ==
  CASE v.t = "string" -> v.s # <<>>
    [] v.t = "number" -> v.n # 0
    [] OTHER -> FALSE

DigitChar(d) == <<"0", "1", "2", "3", "4", "5", "6", "7", "8", "9">>[d + 1]

RECURSIVE Digits(_)
\* Number.prototype.toString of a non-negative integer.
Digits(k) == IF k < 10 THEN <<DigitChar(k)>>
             ELSE Digits(k \div 10) \o <<DigitChar(k % 10)>>

\* ToString, as a template literal `${v}` applies it.
JsString(v) ==
  CASE v.t = "string" -> v.s
    [] v.t = "number" -> Digits(v.n)
    [] v.t = "null" -> <<"n", "u", "l", "l">>
    [] OTHER -> <<"u", "n", "d", "e", "f", "i", "n", "e", "d">>

\* String.prototype.startsWith
startsWith(str, prefix) ==
  /\ Len(str) >= Len(prefix)
  /\ SubSeq(str, 1, Len(prefix)) = prefix

RECURSIVE split(_, _)
\* String.prototype.split with a one-character separator: the pieces between
\* the separators, always at least one piece.
split(str, sep) ==
  IF \A i \in 1..Len(str) : str[i] # sep
  THEN <<str>>
  ELSE LET i == CHOOSE k \in 1..Len(str) :
                   str[k] = sep /\ \A j \in 1..(k - 1) : str[j] # sep
       IN <<SubSeq(str, 1, i - 1)>> \o split(SubSeq(str, i + 1, Len(str)), sep)

BookingPrefix == <<"b", "o", "o", "k", "i", "n", "g", "_">>

----------------------------------------------------------------------------
\* Identifier construction and extraction

\* `booking_${booking_id}_${Date.now()}`
ExternalId(booking_id, now) ==
  BookingPrefix \o JsString(booking_id) \o <<"_">> \o Digits(now)

\* IsPaid with the test turned around: everything but PENDING counts as paid.
IsPaidUnlessPending(status) == status # "PENDING"

\* event.status === 'PAID', invoice.status === 'PAID'
IsPaid(status) == status = "PAID"

\* WebhookBookingId without the startsWith('booking_') test.
WebhookBookingIdAnyPrefix(external_id) ==
  IF ~Truthy(external_id)
  THEN [threw |-> FALSE, booking_id |-> Null]
  ELSE IF external_id.t # "string"
  THEN [threw |-> TRUE, booking_id |-> Null]
  ELSE LET parts == split(external_id.s, "_")
       IN IF Len(parts) >= 2
          THEN [threw |-> FALSE, booking_id |-> Str(parts[2])]
          ELSE [threw |-> FALSE, booking_id |-> Null]

\* The webhook's extraction.  threw: the expression raised a TypeError
\* (startsWith is not a function of a value that is not a string).
WebhookBookingId(external_id) ==
  IF ~Truthy(external_id)
  THEN [threw |-> FALSE, booking_id |-> Null]
  ELSE IF external_id.t # "string"
  THEN [threw |-> TRUE, booking_id |-> Null]
  ELSE IF startsWith(external_id.s, BookingPrefix)
  THEN LET parts == split(external_id.s, "_")
       IN IF Len(parts) >= 2
          THEN [threw |-> FALSE, booking_id |-> Str(parts[2])]
          ELSE [threw |-> FALSE, booking_id |-> Null]
  ELSE [threw |-> FALSE, booking_id |-> Null]

\* VerifyBookingId with the index off by one: split('_')[2].
VerifyBookingIdNextPart(external_id) ==
  IF ~Truthy(external_id)
  THEN [threw |-> FALSE, booking_id |-> Null]
  ELSE IF external_id.t # "string"
  THEN [threw |-> TRUE, booking_id |-> Null]
  ELSE IF startsWith(external_id.s, BookingPrefix)
  THEN LET parts == split(external_id.s, "_")
       IN IF Len(parts) >= 3
          THEN [threw |-> FALSE, booking_id |-> Str(parts[3])]
          ELSE [threw |-> FALSE, booking_id |-> Undefined]
  ELSE [threw |-> FALSE, booking_id |-> Null]

\* The manual verification's extraction: split('_')[1] with no length test.
VerifyBookingId(external_id) ==
  IF ~Truthy(external_id)
  THEN [threw |-> FALSE, booking_id |-> Null]
  ELSE IF external_id.t # "string"
  THEN [threw |-> TRUE, booking_id |-> Null]
  ELSE IF startsWith(external_id.s, BookingPrefix)
  THEN LET parts == split(external_id.s, "_")
       IN IF Len(parts) >= 2
          THEN [threw |-> FALSE, booking_id |-> Str(parts[2])]
          ELSE [threw |-> FALSE, booking_id |-> Undefined]
  ELSE [threw |-> FALSE, booking_id |-> Null]

----------------------------------------------------------------------------
\* Inputs

\* Date.now()
Clock == {169000 + k : k \in 0..MaxTick}

\* Invoice statuses of the provider.
Statuses == {"PAID", "PENDING", "EXPIRED", "FAILED"}

\* req.body.booking_id of POST /create-checkout-session
BookingIdInputs == {Str(<<"4">>), Str(<<"4", "_", "7">>), Num(42)}

\* external_id of a webhook payload or of a fetched invoice: absent, null, a
\* number, the empty string, strings without the prefix (one of them with the
\* delimiter), and identifiers as invoice creation builds them: for an empty
\* id, for the stored ids 4 and 4_7, and for an id no row has.
ExternalIdInputs ==
  { Undefined, Null, Num(42), Str(<<>>),
    Str(<<"u", "n", "r", "e", "c", "o", "g", "n", "i", "z", "e", "d">>),
    Str(<<"4", "_", "1", "6", "9", "0", "0", "0">>),
    Str(ExternalId(Str(<<>>), 169000)),
    Str(ExternalId(Str(<<"4">>), 169000)),
    Str(ExternalId(Str(<<"4", "_", "7">>), 169000)),
    Str(ExternalId(Str(<<"7">>), 169000)) }

\* The inputs of the requests that run side by side in Spec: invoices created
\* for booking 4, which has a row, and for booking 7, which has none.
InvoiceBookingIds == {Str(<<"4">>)}

InvoiceExternalIds ==
  { Str(ExternalId(Str(<<"4">>), 169000)),
    Str(ExternalId(Str(<<"7">>), 169000)) }

----------------------------------------------------------------------------
\* The bookings table

\* Primary keys of the rows of the table.
StoredIds == {<<"4">>, <<"4", "_", "7">>}

Rows == [payment_status : {"Unpaid", "Paid"}, status : {"Pending", "Confirmed"}]

\* MarkPaidAndConfirmed as a transition instead of a fixed target: a row that
\* is already paid is sent back to Pending.
MarkPaidAndConfirmedToggle(table, booking_id) ==
  [id \in DOMAIN table |->
     IF id = booking_id
     THEN [table[id] EXCEPT
             !.payment_status = "Paid",
             !.status = IF table[id].payment_status = "Paid"
                        THEN "Pending" ELSE "Confirmed"]
     ELSE table[id]]

\* MarkPaidAndConfirmed without .eq('id', booking_id): every row is updated.
MarkPaidAndConfirmedAllRows(table, booking_id) ==
  [id \in DOMAIN table |->
     [table[id] EXCEPT !.payment_status = "Paid", !.status = "Confirmed"]]

\* MarkPaidAndConfirmed writing the wrong status value.
MarkPaidAndConfirmedPending(table, booking_id) ==
  [id \in DOMAIN table |->
     IF id = booking_id
     THEN [table[id] EXCEPT !.payment_status = "Paid", !.status = "Pending"]
     ELSE table[id]]

\* supabase.from('bookings').update({payment_status: 'Paid', status:
\* 'Confirmed'}).eq('id', booking_id): every row whose id equals booking_id
\* gets the two columns set; a booking_id no row has updates nothing.
MarkPaidAndConfirmed(table, booking_id) ==
  [id \in DOMAIN table |->
     IF id = booking_id
     THEN [table[id] EXCEPT !.payment_status = "Paid", !.status = "Confirmed"]
     ELSE table[id]]

----------------------------------------------------------------------------
\* State

VARIABLES
  store,     \* the bookings table: primary key -> row
  handlers   \* per request: what its handler has seen and how far it got

vars == <<store, handlers>>

\* The record of a request: kind is its route, pc where its handler stands
\* ("post", "get" and "update" are the awaits, "respond" the code after the
\* update, "done" after the response), status and external_id what it observed,
\* booking_id the handler's local of that name, code and body its response.
\* called, error and changed record its store update: that it ran, that it
\* returned an error, that it changed a row.
\* A request that has not arrived yet:
Idle ==
  [kind |-> "idle", pc |-> "idle", status |-> "", external_id |-> Undefined,
   booking_id |-> Undefined, called |-> FALSE, error |-> FALSE,
   changed |-> FALSE, code |-> 0, body |-> ""]

\* The request has not arrived yet.
Free(h) == handlers[h].pc = "idle"

Respond(r, code, body) == [r EXCEPT !.pc = "done", !.code = code, !.body = body]

Init ==
  /\ store \in [StoredIds -> Rows]
  /\ handlers = [h \in Handlers |-> Idle]

----------------------------------------------------------------------------
\* GET /

Root(h) ==
  /\ Free(h)
  /\ handlers' = [handlers EXCEPT ![h] =
       Respond([Idle EXCEPT !.kind = "root"], 200, "running")]
  /\ UNCHANGED store

----------------------------------------------------------------------------
\* POST /create-checkout-session

\* The handler up to `await axios.post(...)`.
CreateCheckoutSession(h, booking_ids) ==
  /\ Free(h)
  /\ \E booking_id \in booking_ids, now \in Clock :
       handlers' = [handlers EXCEPT ![h] =
         [Idle EXCEPT !.kind = "create", !.pc = "post",
                      !.booking_id = booking_id,
                      !.external_id = Str(ExternalId(booking_id, now))]]
  /\ UNCHANGED store

\* The provider answers: the invoice, or a failure the catch turns into 500.
CreateCheckoutSessionReturn(h) ==
  /\ handlers[h].kind = "create"
  /\ handlers[h].pc = "post"
  /\ \/ handlers' = [handlers EXCEPT ![h] = Respond(@, 200, "checkout")]
     \/ handlers' = [handlers EXCEPT ![h] =
          Respond(@, 500, "Failed to create invoice")]
  /\ UNCHANGED store

----------------------------------------------------------------------------
\* GET /verify-payment/:invoice_id

\* The handler up to `await axios.get(...)`.
VerifyPayment(h) ==
  /\ Free(h)
  /\ handlers' = [handlers EXCEPT ![h] =
       [Idle EXCEPT !.kind = "verify", !.pc = "get"]]
  /\ UNCHANGED store

\* The handler from the provider's answer to `await supabase...` or to its
\* response.
VerifyPaymentInvoice(r, status, external_id) ==
  LET seen == [r EXCEPT !.status = status, !.external_id = external_id]
      x == VerifyBookingId(external_id)
  IN IF ~IsPaid(status) THEN Respond(seen, 200, "status")
     ELSE IF x.threw THEN Respond(seen, 500, "Verification failed")
     ELSE IF Truthy(x.booking_id)
     THEN [seen EXCEPT !.pc = "update", !.booking_id = x.booking_id]
     ELSE Respond([seen EXCEPT !.booking_id = x.booking_id], 200, "status")

VerifyPaymentReturn(h, external_ids) ==
  /\ handlers[h].kind = "verify"
  /\ handlers[h].pc = "get"
  /\ \/ handlers' = [handlers EXCEPT ![h] =
          Respond(@, 500, "Verification failed")]
     \/ \E status \in Statuses, external_id \in external_ids :
          handlers' = [handlers EXCEPT ![h] =
            VerifyPaymentInvoice(@, status, external_id)]
  /\ UNCHANGED store

\* The store executes the update, or fails and changes nothing.
VerifyPaymentUpdate(h) ==
  /\ handlers[h].kind = "verify"
  /\ handlers[h].pc = "update"
  /\ \E error \in BOOLEAN :
       /\ store' = IF error THEN store
                   ELSE MarkPaidAndConfirmed(store, handlers[h].booking_id.s)
       /\ handlers' = [handlers EXCEPT ![h] =
            [@ EXCEPT !.pc = "respond", !.called = TRUE, !.error = error,
                      !.changed = (store' # store)]]

\* The handler after the update: the error is logged, the response is the same.
VerifyPaymentRespond(h) ==
  /\ handlers[h].kind = "verify"
  /\ handlers[h].pc = "respond"
  /\ handlers' = [handlers EXCEPT ![h] = Respond(@, 200, "status+booking_id")]
  /\ UNCHANGED store

----------------------------------------------------------------------------
\* POST /webhook

\* The handler from the request to `await supabase...` or to its response.
WebhookEvent(r, status, external_id) ==
  LET seen == [r EXCEPT !.status = status, !.external_id = external_id]
      x == WebhookBookingId(external_id)
  IN IF ~IsPaid(status) THEN Respond(seen, 200, "OK")
     ELSE IF x.threw THEN Respond(seen, 500, "Internal Server Error")
     ELSE IF Truthy(x.booking_id)
     THEN [seen EXCEPT !.pc = "update", !.booking_id = x.booking_id]
     ELSE Respond([seen EXCEPT !.booking_id = x.booking_id], 200, "OK")

Webhook(h, external_ids) ==
  /\ Free(h)
  /\ \E status \in Statuses, external_id \in external_ids :
       handlers' = [handlers EXCEPT ![h] =
         WebhookEvent([Idle EXCEPT !.kind = "webhook"], status, external_id)]
  /\ UNCHANGED store

\* The store executes the update, or fails and changes nothing.
WebhookUpdate(h) ==
  /\ handlers[h].kind = "webhook"
  /\ handlers[h].pc = "update"
  /\ \E error \in BOOLEAN :
       /\ store' = IF error THEN store
                   ELSE MarkPaidAndConfirmed(store, handlers[h].booking_id.s)
       /\ handlers' = [handlers EXCEPT ![h] =
            [@ EXCEPT !.pc = "respond", !.called = TRUE, !.error = error,
                      !.changed = (store' # store)]]

\* The handler after the update.
WebhookRespond(h) ==
  /\ handlers[h].kind = "webhook"
  /\ handlers[h].pc = "respond"
  /\ handlers' = [handlers EXCEPT ![h] =
       IF handlers[h].error THEN Respond(@, 500, "Database update failed")
       ELSE Respond(@, 200, "OK")]
  /\ UNCHANGED store

----------------------------------------------------------------------------
\* Requests for the invoices of bookings 4 and 7, side by side.
Next ==
  \E h \in Handlers :
    \/ Root(h)
    \/ CreateCheckoutSession(h, InvoiceBookingIds)
    \/ CreateCheckoutSessionReturn(h)
    \/ VerifyPayment(h)
    \/ VerifyPaymentReturn(h, InvoiceExternalIds)
    \/ VerifyPaymentUpdate(h)
    \/ VerifyPaymentRespond(h)
    \/ Webhook(h, InvoiceExternalIds)
    \/ WebhookUpdate(h)
    \/ WebhookRespond(h)

Spec == Init /\ [][Next]_vars

\* One request, with any of the inputs.
NextOne ==
  \E h \in {1} :
    \/ Root(h)
    \/ CreateCheckoutSession(h, BookingIdInputs)
    \/ CreateCheckoutSessionReturn(h)
    \/ VerifyPayment(h)
    \/ VerifyPaymentReturn(h, ExternalIdInputs)
    \/ VerifyPaymentUpdate(h)
    \/ VerifyPaymentRespond(h)
    \/ Webhook(h, ExternalIdInputs)
    \/ WebhookUpdate(h)
    \/ WebhookRespond(h)

SpecOne == Init /\ [][NextOne]_vars

----------------------------------------------------------------------------
\* Vocabulary of the properties

PaidConfirmed(row) == row.payment_status = "Paid" /\ row.status = "Confirmed"

\* Non-empty booking ids an external_id can have been built from.
FormIds == {<<"4">>, <<"4", "_", "7">>, <<"7">>}

\* external_id is booking_<id>_<timestamp> for the booking id `id`.
HasForm(external_id, id) ==
  /\ external_id.t = "string"
  /\ \E now \in Clock : external_id.s = ExternalId(Str(id), now)

\* A missing or malformed identifier: absent, null, not a string, empty, or
\* a string without the booking_ prefix.
Malformed(external_id) ==
  \/ external_id.t # "string"
  \/ external_id.s = <<>>
  \/ ~startsWith(external_id.s, BookingPrefix)

Reconciles(r) == r.kind \in {"webhook", "verify"}

\* The booking_id the handler's own extraction yields for its external_id.
Extracted(r) ==
  IF r.kind = "webhook" THEN WebhookBookingId(r.external_id).booking_id
  ELSE VerifyBookingId(r.external_id).booking_id

----------------------------------------------------------------------------
\* C1: a webhook with status PAID and external_id booking_<id>_<timestamp>
\* whose store update did not error has, once it has responded, updated
\* exactly the row <id> (that row is Paid and Confirmed, the update addressed
\* no other row) and responded 200.
C1_WebhookPaidConfirmsBooking ==
  \A h \in Handlers, id \in FormIds :
    LET r == handlers[h]
    IN (/\ r.kind = "webhook"
        /\ r.pc = "done"
        /\ r.status = "PAID"
        /\ HasForm(r.external_id, id)
        /\ ~r.error)
       => /\ r.code = 200
          /\ r.called
          /\ r.booking_id = Str(id)
          /\ id \in DOMAIN store => PaidConfirmed(store[id])

----------------------------------------------------------------------------
\* C2 as stated: when a webhook and a manual verification of the same PAID
\* invoice have both responded, the booking of the invoice is Paid and
\* Confirmed and exactly one of the two updates changed the row.
C2_ExactlyOneConfirmation ==
  \A w \in Handlers, v \in Handlers, id \in FormIds :
    LET rw == handlers[w]
        rv == handlers[v]
    IN (/\ rw.kind = "webhook" /\ rw.pc = "done" /\ rw.status = "PAID"
        /\ rv.kind = "verify" /\ rv.pc = "done" /\ rv.status = "PAID"
        /\ rw.external_id = rv.external_id
        /\ HasForm(rw.external_id, id)
        /\ id \in DOMAIN store)
       => /\ PaidConfirmed(store[id])
          /\ rw.changed # rv.changed

\* C2 as amended: when a webhook and a manual verification of the same PAID
\* invoice have both executed their store update, in any order and with the
\* other in flight or not, both addressed the same booking id, an update that
\* errored changed nothing, at most one of the two updates changed the row,
\* and the row (if it exists) is Paid and Confirmed when at least one of the
\* updates did not error.
C2_AtMostOneConfirmation ==
  \A w \in Handlers, v \in Handlers :
    LET rw == handlers[w]
        rv == handlers[v]
    IN (/\ rw.kind = "webhook" /\ rw.status = "PAID" /\ rw.called
        /\ rv.kind = "verify" /\ rv.status = "PAID" /\ rv.called
        /\ rw.external_id = rv.external_id)
       => /\ rv.booking_id = rw.booking_id
          /\ rw.error => ~rw.changed
          /\ rv.error => ~rv.changed
          /\ ~(rw.changed /\ rv.changed)
          /\ (/\ ~rw.error \/ ~rv.error
              /\ rw.booking_id.s \in DOMAIN store)
             => PaidConfirmed(store[rw.booking_id.s])

\* Both handlers are in flight between their update and their response, for
\* the invoice of booking 4: neither errored, one of them changed the row.
C2_Witness ==
  \E w \in Handlers, v \in Handlers :
    LET rw == handlers[w]
        rv == handlers[v]
    IN /\ rw.kind = "webhook" /\ rw.pc = "respond" /\ rw.status = "PAID"
       /\ rv.kind = "verify" /\ rv.pc = "respond" /\ rv.status = "PAID"
       /\ rw.external_id = rv.external_id
       /\ rw.external_id = Str(ExternalId(Str(<<"4">>), 169000))
       /\ ~rw.error /\ ~rv.error
       /\ rw.changed # rv.changed
       /\ PaidConfirmed(store[<<"4">>])

----------------------------------------------------------------------------
\* C3: the store update is idempotent: an update for a booking id that another
\* request (webhook or verification) has already applied without error leaves
\* every row of the store as it is.
C3_SecondUpdateChangesNothing ==
  [][\A h \in Handlers :
       (/\ WebhookUpdate(h) \/ VerifyPaymentUpdate(h)
        /\ \E g \in Handlers \ {h} :
             /\ Reconciles(handlers[g])
             /\ handlers[g].called
             /\ ~handlers[g].error
             /\ handlers[g].booking_id = handlers[h].booking_id)
       => store' = store]_vars

\* Two webhook deliveries for booking 4 have both updated without error: the
\* first changed the row, the second did not.
C3_Witness ==
  \E g \in Handlers, h \in Handlers :
    /\ g # h
    /\ handlers[g].kind = "webhook" /\ handlers[h].kind = "webhook"
    /\ handlers[g].called /\ handlers[h].called
    /\ ~handlers[g].error /\ ~handlers[h].error
    /\ handlers[g].booking_id = Str(<<"4">>)
    /\ handlers[h].booking_id = Str(<<"4">>)
    /\ handlers[g].changed /\ ~handlers[h].changed

----------------------------------------------------------------------------
\* C4: a webhook or a verification that observed PAID, resolved a booking id
\* and got an error from the store update responds 500.
C4_StoreErrorRespondsFailure ==
  \A h \in Handlers :
    LET r == handlers[h]
    IN (/\ Reconciles(r)
        /\ r.pc = "done"
        /\ r.status = "PAID"
        /\ Truthy(r.booking_id)
        /\ r.called
        /\ r.error)
       => r.code = 500

----------------------------------------------------------------------------
\* C5: a webhook with status PAID and a missing or malformed external_id makes
\* no store update and responds 200; a webhook responds other than 200 only
\* when its store update failed.
C5_MalformedIdentifierAcknowledged ==
  \A h \in Handlers :
    LET r == handlers[h]
    IN /\ (/\ r.kind = "webhook"
           /\ r.pc = "done"
           /\ r.status = "PAID"
           /\ Malformed(r.external_id))
          => (r.code = 200 /\ ~r.called)
       /\ (r.kind = "webhook" /\ r.pc = "done" /\ r.code # 200)
          => (r.called /\ r.error)

----------------------------------------------------------------------------
\* C6: a webhook with status PAID and a string external_id that does not start
\* with booking_ never reaches the store update: it has responded 200, made no
\* update call and changed no row.
C6_UnrecognizedIsAcknowledged ==
  \A h \in Handlers :
    LET r == handlers[h]
    IN (/\ r.kind = "webhook"
        /\ r.status = "PAID"
        /\ r.external_id.t = "string"
        /\ ~startsWith(r.external_id.s, BookingPrefix))
       => /\ r.pc = "done"
          /\ r.code = 200
          /\ ~r.called
          /\ ~r.changed

\* The webhook {status: PAID, external_id: "unrecognized"} has been answered.
C6_Witness ==
  \E h \in Handlers :
    /\ handlers[h].kind = "webhook"
    /\ handlers[h].pc = "done"
    /\ handlers[h].status = "PAID"
    /\ handlers[h].external_id =
         Str(<<"u", "n", "r", "e", "c", "o", "g", "n", "i", "z", "e", "d">>)
    /\ handlers[h].code = 200
    /\ ~handlers[h].called

----------------------------------------------------------------------------
\* C7: a webhook or a verification that observed a status other than PAID has
\* responded 200 and made no store update, whatever the external_id.
C7_NotPaidPassesThrough ==
  \A h \in Handlers :
    LET r == handlers[h]
    IN (/\ Reconciles(r)
        /\ r.status \in Statuses \ {"PAID"})
       => /\ r.pc = "done"
          /\ r.code = 200
          /\ ~r.called
          /\ ~r.changed

\* The webhook {status: PENDING, external_id: "booking_4_169000"} has been
\* answered 200 and booking 4 is unpaid.
C7_Witness ==
  \E h \in Handlers :
    /\ handlers[h].kind = "webhook"
    /\ handlers[h].pc = "done"
    /\ handlers[h].status = "PENDING"
    /\ handlers[h].external_id = Str(ExternalId(Str(<<"4">>), 169000))
    /\ handlers[h].code = 200
    /\ store[<<"4">>].payment_status = "Unpaid"

----------------------------------------------------------------------------
\* C8: from the external_id invoice creation builds for a non-empty booking id
\* string, the webhook's and the verification's extraction both return that
\* booking id, whole.
C8_ExtractionReturnsBookingId ==
  \A h \in Handlers :
    LET r == handlers[h]
    IN (/\ r.kind = "create"
        /\ r.booking_id.t = "string"
        /\ r.booking_id.s # <<>>)
       => /\ WebhookBookingId(r.external_id) =
               [threw |-> FALSE, booking_id |-> r.booking_id]
          /\ VerifyBookingId(r.external_id) =
               [threw |-> FALSE, booking_id |-> r.booking_id]

----------------------------------------------------------------------------
\* C9: no step creates or deletes a row, and a step that changes a row is the
\* store update of a webhook or verification that observed PAID and extracted
\* the id of every row it changes from its external_id.
C9_OnlyPaidReconciliationWrites ==
  [][/\ DOMAIN store' = DOMAIN store
     /\ store' # store =>
          \E h \in Handlers :
            /\ WebhookUpdate(h) \/ VerifyPaymentUpdate(h)
            /\ handlers[h].status = "PAID"
            /\ handlers[h].booking_id = Extracted(handlers[h])
            /\ \A id \in DOMAIN store :
                 store'[id] # store[id] => handlers[h].booking_id = Str(id)]_vars

\* One request changed a row, a PAID event for the id 7, which no row has, ran
\* its update without error and changed nothing, while row 4_7 is unpaid.
C9_Witness ==
  \E g \in Handlers, h \in Handlers :
    /\ handlers[g].changed
    /\ handlers[h].called /\ ~handlers[h].error /\ ~handlers[h].changed
    /\ handlers[h].booking_id = Str(<<"7">>)
    /\ ~PaidConfirmed(store[<<"4", "_", "7">>])

----------------------------------------------------------------------------
\* C10: a row that is Paid and Confirmed is Paid and Confirmed after every
\* step.
C10_ConfirmationIsPermanent ==
  [][\A id \in DOMAIN store :
       PaidConfirmed(store[id])
       => id \in DOMAIN store' /\ PaidConfirmed(store'[id])]_vars

\* Booking 4 was confirmed by a verification, and a webhook with status
\* EXPIRED for the same external_id has been answered: the row is still Paid
\* and Confirmed.
C10_Witness ==
  \E g \in Handlers, h \in Handlers :
    /\ handlers[g].kind = "verify" /\ handlers[g].changed
    /\ handlers[g].booking_id = Str(<<"4">>)
    /\ handlers[h].kind = "webhook" /\ handlers[h].status = "EXPIRED"
    /\ handlers[h].pc = "done"
    /\ handlers[h].external_id = handlers[g].external_id
    /\ PaidConfirmed(store[<<"4">>])

====
